---- MODULE Spec2Model ----
(***************************************************************************)
(* A model of src/project_manager.py: the ProjectManager store, its        *)
(* in-memory map of ProjectConfig records, the focused project pointer     *)
(* and the one-JSON-file-per-project directory behind it.                  *)
(*                                                                         *)
(* Conventions.  An Optional[T] value is a sequence of length at most one: *)
(* None is << >> and a present value x is << x >>.  uuid4 tokens are drawn *)
(* from a counter (a fresh token on every draw).  datetime.now() is a      *)
(* non-decreasing integer clock; isoformat strings are those integers.     *)
(***************************************************************************)
EXTENDS Integers, Sequences, FiniteSets, TLC

\* ------------------------------------------------------------------ bounds
\* Number of decisions a project is given in the runs that export it.
MaxDecisions == 15
\* Number of calls made in one run (constructions of a store included).
MaxCalls == 3
\* Largest value the clock reaches; it stays there afterwards.
MaxClock == 1
\* Number of saves the filesystem rejects in one run.
MaxSaveFailures == 1

\* ------------------------------------------------------------ basic values
None == << >>
Some(x) == << x >>

\* class ProjectStatus(Enum): the members ...
ProjectStatus == {"ACTIVE", "PAUSED", "ARCHIVED"}

\* ... and member.value
StatusValue(s) ==
  CASE s = "ACTIVE" -> "active"
    [] s = "PAUSED" -> "paused"
    [] s = "ARCHIVED" -> "archived"

StatusValues == {StatusValue(s) : s \in ProjectStatus}

\* ProjectStatus(value): the member with that value (ValueError when there is
\* none: callers test membership in StatusValues first).
StatusOfValue(v) == CHOOSE s \in ProjectStatus : StatusValue(s) = v

\* ProjectConfig.__post_init__ default for file_extensions
DefaultFileExtensions ==
  <<".py", ".js", ".jsx", ".ts", ".tsx", ".md", ".json", ".yaml">>

\* os.path.abspath: a relative path is joined to the working directory.
abspath(path) ==
  CASE path = "alpha" -> "/cwd/alpha"
    [] path = "b" -> "/cwd/b"
    [] OTHER -> path

\* sequence helpers
SeqMap(Op(_), s) == [i \in DOMAIN s |-> Op(s[i])]
Range(s) == {s[i] : i \in DOMAIN s}
Min(a, b) == IF a <= b THEN a ELSE b

\* ------------------------------------------------------------- dataclasses
\* Decision(id, decision, reasoning, timestamp, tags=None) with __post_init__
Decision(id, decision, reasoning, timestamp, tags) ==
  [id |-> id, decision |-> decision, reasoning |-> reasoning,
   timestamp |-> timestamp,
   tags |-> IF tags = None THEN << >> ELSE tags[1]]

\* Objective(id, title, description, created_at, completed_at=None,
\*           status="pending", priority="medium")
Objective(id, title, description, created_at, completed_at, status, priority) ==
  [id |-> id, title |-> title, description |-> description,
   created_at |-> created_at, completed_at |-> completed_at,
   status |-> status, priority |-> priority]

\* ProjectConfig(...) with __post_init__ filling the None defaults
ProjectConfig(project_id, name, root_path, watch_dirs, status, created_at, last_active, description, file_extensions, decisions, objectives, metadata) ==
  [project_id |-> project_id, name |-> name, root_path |-> root_path,
   watch_dirs |-> watch_dirs, status |-> status, created_at |-> created_at,
   last_active |-> last_active, description |-> description,
   file_extensions |->
     IF file_extensions = None THEN DefaultFileExtensions
     ELSE file_extensions[1],
   decisions |-> IF decisions = None THEN << >> ELSE decisions[1],
   objectives |-> IF objectives = None THEN << >> ELSE objectives[1],
   metadata |-> IF metadata = None THEN << >> ELSE metadata[1]]

\* dataclasses.asdict of a Decision / an Objective: a plain dict with the
\* same keys and values.
AsDictEntity(e) == e

\* ProjectConfig.to_dict: asdict, the status replaced by its value, the
\* nested entities flattened.
to_dict(p) ==
  [p EXCEPT !.status = StatusValue(p.status),
            !.decisions = SeqMap(AsDictEntity, p.decisions),
            !.objectives = SeqMap(AsDictEntity, p.objectives)]

\* an Objective rebuilt from its required fields only: completed_at, status
\* and priority take their defaults
ObjectiveFromDictRequired(o) ==
  Objective(o.id, o.title, o.description, o.created_at, None, "pending",
            "medium")

\* Decision(**d) and Objective(**o) of from_dict
DecisionFromDict(d) ==
  Decision(d.id, d.decision, d.reasoning, d.timestamp, Some(d.tags))
ObjectiveFromDict(o) ==
  Objective(o.id, o.title, o.description, o.created_at, o.completed_at,
            o.status, o.priority)

\* ProjectConfig.from_dict raises (ValueError from ProjectStatus(...)) on a
\* status that is no member's value.
FromDictRaises(data) == data.status \notin StatusValues

\* ProjectConfig.from_dict on a dict it accepts
from_dict(data) ==
  ProjectConfig(data.project_id, data.name, data.root_path, data.watch_dirs,
                StatusOfValue(data.status), data.created_at, data.last_active,
                data.description, Some(data.file_extensions),
                Some(SeqMap(DecisionFromDict, data.decisions)),
                Some(SeqMap(ObjectiveFromDict, data.objectives)),
                Some(data.metadata))

\* ------------------------------------------------------------------- files
\* The content of <project_id>.json: << dict >> is the complete JSON text of
\* one dict; Truncated is a file opened for writing whose dump did not
\* complete (json.load raises on it).
JsonText(dict) == << dict >>
Truncated == << >>

\* json.load + from_dict inside the try block of load_all_projects: TRUE when
\* the file yields a record.
Parses(content) == content # Truncated /\ ~FromDictRaises(content[1])
Parsed(content) == from_dict(content[1])

\* a mapping with key k set to v (dict item assignment, file creation)
Put(m, k, v) == [x \in DOMAIN m \cup {k} |-> IF x = k THEN v ELSE m[x]]
EmptyMap == [x \in {} |-> 0]

\* What the filesystem does to a save: it completes, open() fails and the
\* file is untouched, or open() truncates the file and the dump fails.
AllSaveOutcomes == {"ok", "open_failed", "write_failed"}

\* save_project opening the file in exclusive-creation mode: an existing file
\* is never overwritten.
save_project_create_only(d, project, outcome) ==
  IF outcome = "ok" /\ project.project_id \notin DOMAIN d
  THEN Put(d, project.project_id, JsonText(to_dict(project)))
  ELSE d

\* save_project on a directory it clears first: the saved file is the only
\* one left
save_project_alone(d, project, outcome) ==
  IF outcome = "ok"
  THEN Put(EmptyMap, project.project_id, JsonText(to_dict(project)))
  ELSE d

\* save_project: the directory after the save of `project` with the given
\* filesystem outcome (open(config_file, 'w') then json.dump).
save_project(d, project, outcome) ==
  CASE outcome = "ok" -> Put(d, project.project_id, JsonText(to_dict(project)))
    [] outcome = "open_failed" -> d
    [] outcome = "write_failed" -> Put(d, project.project_id, Truncated)

\* -------------------------------------------------------------- the store
VARIABLES
  projects,            \* self.projects: project_id -> ProjectConfig
  order,               \* the insertion order of the keys of self.projects
  focused_project_id,  \* self.focused_project_id: Optional[str]
  disk,                \* config_dir: project_id -> content of <id>.json
  now,                 \* the last value datetime.now() returned
  uuidCount,           \* how many uuid4 tokens have been drawn
  reliable,            \* environment: the filesystem accepts every save
  saveFailures,        \* history: how many saves of this run have failed
  calls,               \* history: how many calls have been made
  last                 \* history: the last call, its arguments and result

vars == <<projects, order, focused_project_id, disk, now, uuidCount,
          reliable, saveFailures, calls, last>>

\* the outcomes the next save may have
SaveOutcomes ==
  IF ~reliable /\ saveFailures < MaxSaveFailures
  THEN AllSaveOutcomes
  ELSE {"ok"}

\* the values datetime.now() may return after it returned t
Ticks(t) == {t, Min(t + 1, MaxClock)}

\* a token source that returns its last token again
LastUuid == uuidCount

\* uuid4().hex[:n]: the next fresh token
NextUuid == uuidCount + 1

\* an id no uuid4 draw returns
UnknownId == 0

\* the project ids callers pass: those of the map, those with a file, and
\* one that is neither
PidInputs == DOMAIN projects \cup DOMAIN disk \cup {UnknownId}

\* the objective ids callers pass: those of any project, and one of none
OidInputs ==
  UNION {{projects[p].objectives[i].id : i \in DOMAIN projects[p].objectives} :
           p \in DOMAIN projects} \cup {UnknownId}

\* argument tuples of create_project: (name, root_path, watch_dirs,
\* description)
CreateInputs == { <<"Alpha", "alpha", None, "">> }

\* tags arguments of add_decision
TagInputs == {None, Some(<<"arch">>)}

\* the record of a call: the method, the project and objective ids it was
\* given (0 when it takes none), the status it was given (update_status) or
\* found on the objective it matched (complete_objective), "" otherwise, and
\* how it ended
Call(op, pid, oid, status, res) ==
  [op |-> op, pid |-> pid, oid |-> oid, status |-> status, res |-> res]

\* the exception of the save swallowed: the call returns its value anyway
ReturnedAnyway(outcome, value) == value

\* how a call ends after its save: its value, or the exception of the save
Returned(outcome, value) == IF outcome = "ok" THEN value ELSE "raised"

\* dict item assignment on self.projects: the key order afterwards
OrderAfterPut(projs, ord, pid) ==
  IF pid \in DOMAIN projs THEN ord ELSE Append(ord, pid)

\* the try block around the whole loop: the first file that fails to parse
\* ends the load
RECURSIVE LoadFilesAbort(_, _, _)
LoadFilesAbort(files, d, acc) ==
  IF files = << >> THEN acc
  ELSE LET content == d[Head(files)]
       IN IF Parses(content)
          THEN LET project == Parsed(content)
               IN LoadFilesAbort(
                    Tail(files), d,
                    [projects |->
                       Put(acc.projects, project.project_id, project),
                     order |-> Append(acc.order, project.project_id)])
          ELSE acc

\* the loop left after its first iteration: only the first file glob yields
\* is loaded
LoadFilesFirstOnly(files, d, acc) ==
  IF files = << >> \/ ~Parses(d[Head(files)]) THEN acc
  ELSE [projects |-> Put(acc.projects, Parsed(d[Head(files)]).project_id,
                         Parsed(d[Head(files)])),
        order |-> Append(acc.order, Parsed(d[Head(files)]).project_id)]

\* load_all_projects, lines 108-116: the files visited in glob order, each
\* parsed on its own; acc is [projects, order].
RECURSIVE LoadFiles(_, _, _)
LoadFiles(files, d, acc) ==
  IF files = << >> THEN acc
  ELSE LET content == d[Head(files)]
           acc1 ==
             IF Parses(content)
             THEN LET project == Parsed(content)
                  IN [projects |->
                        Put(acc.projects, project.project_id, project),
                      order |->
                        OrderAfterPut(acc.projects, acc.order,
                                      project.project_id)]
             ELSE acc
       IN LoadFiles(Tail(files), d, acc1)

\* get_active_projects: the ACTIVE records in map order (as ids)
get_active_projects(projs, ord) ==
  SelectSeq(ord, LAMBDA pid : projs[pid].status = "ACTIVE")

\* the focus put on the first record of the map, whatever its status
FocusAfterLoadFirst(projs, ord, focus) ==
  IF focus = None /\ DOMAIN projs # {} THEN Some(ord[1]) ELSE focus

\* load_all_projects, lines 118-122: the focus after the files are loaded
FocusAfterLoad(projs, ord, focus) ==
  IF focus = None /\ DOMAIN projs # {}
  THEN IF get_active_projects(projs, ord) # << >>
       THEN Some(get_active_projects(projs, ord)[1])
       ELSE focus
  ELSE focus

\* the orders in which glob may yield the files of a directory
GlobOrders(d) ==
  {s \in [1 .. Cardinality(DOMAIN d) -> DOMAIN d] : Range(s) = DOMAIN d}

\* __init__ not resetting the focus: the pointer of the previous instance
\* survives the load.
InitialFocusKept(previous) == previous

\* what __init__ sets before loading: an empty map, no focus
EmptyStore == [projects |-> EmptyMap, order |-> << >>]
InitialFocus(previous) == None

\* ProjectManager.__init__ on the directory as it is: a fresh store instance
Construct ==
  \E files \in GlobOrders(disk) :
    LET loaded == LoadFiles(files, disk, EmptyStore)
    IN /\ projects' = loaded.projects
       /\ order' = loaded.order
       /\ focused_project_id' =
            FocusAfterLoad(loaded.projects, loaded.order,
                           InitialFocus(focused_project_id))
       /\ last' = Call("__init__", 0, 0, "", "None")
       /\ UNCHANGED <<disk, now, uuidCount, saveFailures>>

\* create_project, lines 168-170: the focus once the record is in the map
FocusAfterCreate(projs, focus, project_id) ==
  IF Cardinality(DOMAIN projs) = 1 THEN Some(project_id) ELSE focus

create_project(name, root_path, watch_dirs, description) ==
  \E t1 \in Ticks(now), outcome \in SaveOutcomes :
    \E t2 \in Ticks(t1) :
      LET project_id == NextUuid
          dirs == IF watch_dirs = None THEN <<root_path>> ELSE watch_dirs[1]
          project ==
            ProjectConfig(project_id, name, abspath(root_path),
                          SeqMap(abspath, dirs), "ACTIVE", t1, t2,
                          description, None, None, None, None)
          projects1 == Put(projects, project_id, project)
      IN /\ uuidCount' = uuidCount + 1
         /\ now' = t2
         /\ projects' = projects1
         /\ order' = OrderAfterPut(projects, order, project_id)
         /\ disk' = save_project(disk, project, outcome)
         /\ focused_project_id' =
              IF outcome = "ok"
              THEN FocusAfterCreate(projects1, focused_project_id, project_id)
              ELSE focused_project_id
         /\ saveFailures' =
              IF outcome = "ok" THEN saveFailures ELSE saveFailures + 1
         /\ last' = Call("create_project", project_id, 0, "",
                         Returned(outcome, "project"))

\* `project_id in self.projects`
Known(projs, project_id) == project_id \in DOMAIN projs

\* a call that finds nothing to act on: nothing changes but the result
NotFound(op, pid, oid, status, res) ==
  /\ last' = Call(op, pid, oid, status, res)
  /\ UNCHANGED <<projects, order, focused_project_id, disk, now, uuidCount,
                 saveFailures>>

\* the tail shared by the mutating calls on a known project: the record
\* mutated in the map, then saved
StoreAndSave(project, outcome, op, oid, status, value) ==
  /\ projects' = [projects EXCEPT ![project.project_id] = project]
  /\ disk' = save_project(disk, project, outcome)
  /\ saveFailures' = IF outcome = "ok" THEN saveFailures ELSE saveFailures + 1
  /\ last' = Call(op, project.project_id, oid, status,
                  Returned(outcome, value))
  /\ UNCHANGED order

\* set_focus moving the pointer without stamping last_active
set_focus_unstamped(project_id) ==
  IF Known(projects, project_id)
  THEN \E t \in Ticks(now), outcome \in SaveOutcomes :
         /\ focused_project_id' = Some(project_id)
         /\ now' = t
         /\ StoreAndSave(projects[project_id], outcome, "set_focus", 0, "",
                         "True")
         /\ UNCHANGED uuidCount
  ELSE NotFound("set_focus", project_id, 0, "", "False")

\* update_status moving the focus away from a project it pauses or archives
update_status_unfocusing(project_id, status) ==
  IF Known(projects, project_id)
  THEN \E t \in Ticks(now), outcome \in SaveOutcomes :
         /\ now' = t
         /\ StoreAndSave([projects[project_id] EXCEPT !.status = status,
                                                      !.last_active = t],
                         outcome, "update_status", 0, status, "True")
         /\ focused_project_id' =
              IF status # "ACTIVE" /\ focused_project_id = Some(project_id)
              THEN None ELSE focused_project_id
         /\ UNCHANGED uuidCount
  ELSE NotFound("update_status", project_id, 0, status, "False")

set_focus(project_id) ==
  IF Known(projects, project_id)
  THEN \E t \in Ticks(now), outcome \in SaveOutcomes :
         /\ focused_project_id' = Some(project_id)
         /\ now' = t
         /\ StoreAndSave([projects[project_id] EXCEPT !.last_active = t],
                         outcome, "set_focus", 0, "", "True")
         /\ UNCHANGED uuidCount
  ELSE NotFound("set_focus", project_id, 0, "", "False")

update_status(project_id, status) ==
  IF Known(projects, project_id)
  THEN \E t \in Ticks(now), outcome \in SaveOutcomes :
         /\ now' = t
         /\ StoreAndSave([projects[project_id] EXCEPT !.status = status,
                                                      !.last_active = t],
                         outcome, "update_status", 0, status, "True")
         /\ UNCHANGED <<focused_project_id, uuidCount>>
  ELSE NotFound("update_status", project_id, 0, status, "False")

pause_project(project_id) == update_status(project_id, "PAUSED")
resume_project(project_id) == update_status(project_id, "ACTIVE")
archive_project(project_id) == update_status(project_id, "ARCHIVED")

\* `tags or []`
TagsOrEmpty(tags) ==
  IF tags = None \/ tags = Some(<< >>) THEN << >> ELSE tags[1]

add_decision(project_id, decision, reasoning, tags) ==
  IF ~Known(projects, project_id)
  THEN NotFound("add_decision", project_id, 0, "", "None")
  ELSE \E t1 \in Ticks(now), outcome \in SaveOutcomes :
         \E t2 \in Ticks(t1) :
           LET project == projects[project_id]
               decision_obj ==
                 Decision(NextUuid, decision, reasoning, t1,
                          Some(TagsOrEmpty(tags)))
           IN /\ now' = t2
              /\ StoreAndSave(
                   [project EXCEPT
                      !.decisions = Append(project.decisions, decision_obj),
                      !.last_active = t2],
                   outcome, "add_decision", NextUuid, "", "decision")
              /\ uuidCount' = uuidCount + 1
              /\ UNCHANGED focused_project_id

add_objective(project_id, title, description, priority) ==
  IF ~Known(projects, project_id)
  THEN NotFound("add_objective", project_id, 0, "", "None")
  ELSE \E t1 \in Ticks(now), outcome \in SaveOutcomes :
         \E t2 \in Ticks(t1) :
           LET project == projects[project_id]
               objective ==
                 Objective(NextUuid, title, description, t1, None,
                           "pending", priority)
           IN /\ now' = t2
              /\ StoreAndSave(
                   [project EXCEPT
                      !.objectives = Append(project.objectives, objective),
                      !.last_active = t2],
                   outcome, "add_objective", NextUuid, "", "objective")
              /\ uuidCount' = uuidCount + 1
              /\ UNCHANGED focused_project_id

\* the loop variable used after the loop: without a match the last objective
\* of the project is taken
FirstMatchOrLast(objectives, objective_id) ==
  IF \E i \in DOMAIN objectives : objectives[i].id = objective_id
  THEN CHOOSE i \in DOMAIN objectives :
         /\ objectives[i].id = objective_id
         /\ \A j \in 1 .. (i - 1) : objectives[j].id # objective_id
  ELSE Len(objectives)

\* the loop of complete_objective: the index of the first objective whose id
\* is objective_id, 0 when the loop ends without a match
FirstMatch(objectives, objective_id) ==
  IF \E i \in DOMAIN objectives : objectives[i].id = objective_id
  THEN CHOOSE i \in DOMAIN objectives :
         /\ objectives[i].id = objective_id
         /\ \A j \in 1 .. (i - 1) : objectives[j].id # objective_id
  ELSE 0

\* completion that sets the status and forgets the stamp
CompletedNoStamp(obj, t) == [obj EXCEPT !.status = "completed"]

\* completion written as a toggle: a completed objective is reopened
CompletedToggle(obj, t) ==
  IF obj.status = "completed"
  THEN [obj EXCEPT !.status = "pending", !.completed_at = None]
  ELSE [obj EXCEPT !.status = "completed", !.completed_at = Some(t)]

\* complete_objective, lines 271-272: the matched objective afterwards
Completed(obj, t) ==
  [obj EXCEPT !.status = "completed", !.completed_at = Some(t)]

complete_objective(project_id, objective_id) ==
  IF ~Known(projects, project_id)
  THEN NotFound("complete_objective", project_id, objective_id, "", "False")
  ELSE LET project == projects[project_id]
           i == FirstMatch(project.objectives, objective_id)
       IN IF i = 0
          THEN NotFound("complete_objective", project_id, objective_id, "",
                        "False")
          ELSE \E t1 \in Ticks(now), outcome \in SaveOutcomes :
                 \E t2 \in Ticks(t1) :
                   /\ now' = t2
                   /\ StoreAndSave(
                        [project EXCEPT
                           !.objectives[i] =
                              Completed(project.objectives[i], t1),
                           !.last_active = t2],
                        outcome, "complete_objective", objective_id,
                        project.objectives[i].status, "True")
                   /\ UNCHANGED <<focused_project_id, uuidCount>>

\* ----------------------------------------------------------------- queries
\* get_project: self.projects.get(project_id)
get_project(projs, project_id) ==
  IF project_id \in DOMAIN projs THEN Some(projs[project_id]) ELSE None

\* get_focused_project answering with the first record of the map
get_focused_project_first(projs, focus) ==
  IF focus # None /\ DOMAIN projs # {}
  THEN Some(projs[CHOOSE pid \in DOMAIN projs :
                    \A q \in DOMAIN projs : pid <= q])
  ELSE None

\* get_focused_project
get_focused_project(projs, focus) ==
  IF focus # None THEN get_project(projs, focus[1]) ELSE None

\* the slice [:10] of export_context
RecentLimit == 10

\* the sort without reverse=True: oldest first
InsertByTimestampAsc(sorted, d) ==
  LET k == Cardinality({i \in DOMAIN sorted :
                          sorted[i].timestamp <= d.timestamp})
  IN SubSeq(sorted, 1, k) \o <<d>> \o SubSeq(sorted, k + 1, Len(sorted))

\* sorted(..., key=lambda d: d.timestamp, reverse=True): a stable sort, so
\* each element goes behind those whose timestamp is not smaller
InsertByTimestampDesc(sorted, d) ==
  LET k == Cardinality({i \in DOMAIN sorted :
                          sorted[i].timestamp >= d.timestamp})
  IN SubSeq(sorted, 1, k) \o <<d>> \o SubSeq(sorted, k + 1, Len(sorted))

RECURSIVE SortedByTimestampDesc(_)
SortedByTimestampDesc(decisions) ==
  IF decisions = << >> THEN << >>
  ELSE InsertByTimestampDesc(
         SortedByTimestampDesc(SubSeq(decisions, 1, Len(decisions) - 1)),
         decisions[Len(decisions)])

\* the document export_context returns for an unknown id: {}
EmptyDocument == EmptyMap

DecisionRow(d) ==
  [decision |-> d.decision, reasoning |-> d.reasoning,
   timestamp |-> d.timestamp, tags |-> d.tags]

ObjectiveRow(o) ==
  [title |-> o.title, description |-> o.description,
   priority |-> o.priority, created_at |-> o.created_at]

export_context(projs, project_id) ==
  IF project_id \notin DOMAIN projs THEN EmptyDocument
  ELSE LET project == projs[project_id]
           sorted == SortedByTimestampDesc(project.decisions)
           recent_decisions ==
             SubSeq(sorted, 1, Min(RecentLimit, Len(sorted)))
           pending_objectives ==
             SelectSeq(project.objectives,
                       LAMBDA o : o.status # "completed")
       IN [project |->
             [id |-> project.project_id, name |-> project.name,
              description |-> project.description,
              root_path |-> project.root_path,
              status |-> StatusValue(project.status),
              last_active |-> project.last_active],
           recent_decisions |-> SeqMap(DecisionRow, recent_decisions),
           pending_objectives |-> SeqMap(ObjectiveRow, pending_objectives),
           statistics |->
             [total_decisions |-> Len(project.decisions),
              total_objectives |-> Len(project.objectives),
              completed_objectives |->
                Len(SelectSeq(project.objectives,
                              LAMBDA o : o.status = "completed")),
              watch_directories |-> Len(project.watch_dirs)]]

\* the concatenation of the watch_dirs of the projects of a sequence of ids:
\* watch_dirs.extend(project.watch_dirs) for each
RECURSIVE ExtendAll(_, _)
ExtendAll(projs, ids) ==
  IF ids = << >> THEN << >>
  ELSE projs[Head(ids)].watch_dirs \o ExtendAll(projs, Tail(ids))

\* list(set(xs)): the lists a set of values may be turned into, each value
\* once, in any order
ListOfSet(S) == {l \in [1 .. Cardinality(S) -> S] : Range(l) = S}

\* the extended list returned as it is
get_all_watch_dirs_raw(projs, ord) ==
  {ExtendAll(projs, get_active_projects(projs, ord))}

\* get_all_watch_dirs: the lists it may return
get_all_watch_dirs(projs, ord) ==
  ListOfSet(Range(ExtendAll(projs, get_active_projects(projs, ord))))

\* the number of records with a given status
CountStatus(projs, status) ==
  Cardinality({pid \in DOMAIN projs : projs[pid].status = status})

\* a row counting every objective as pending
SummaryRowAllPending(project) ==
  [id |-> project.project_id, name |-> project.name,
   status |-> StatusValue(project.status),
   last_active |-> project.last_active,
   objectives_pending |-> Len(project.objectives),
   total_decisions |-> Len(project.decisions)]

\* the row of get_project_summary for one project
SummaryRow(project) ==
  [id |-> project.project_id, name |-> project.name,
   status |-> StatusValue(project.status),
   last_active |-> project.last_active,
   objectives_pending |->
     Len(SelectSeq(project.objectives, LAMBDA o : o.status # "completed")),
   total_decisions |-> Len(project.decisions)]

get_project_summary(projs, ord, focus) ==
  [total_projects |-> Cardinality(DOMAIN projs),
   active_projects |-> CountStatus(projs, "ACTIVE"),
   paused_projects |-> CountStatus(projs, "PAUSED"),
   archived_projects |-> CountStatus(projs, "ARCHIVED"),
   focused_project |-> focus,
   projects |-> [i \in DOMAIN ord |-> SummaryRow(projs[ord[i]])]]

\* list.sort(...) in place of sorted(...): the list of the record is left
\* in sort order
DecisionsSortedInPlace(decisions) == SortedByTimestampDesc(decisions)

\* what sorted(project.decisions, ...) leaves in project.decisions: sorted
\* builds a new list
DecisionsAfterSorted(decisions) == decisions

\* a call of a query: what it leaves of the store.  None of the queries
\* assigns an attribute of the store or of a record, opens a file or reads
\* the clock.
Query(op, pid) ==
  /\ last' = Call(op, pid, 0, "", "value")
  /\ UNCHANGED <<order, focused_project_id, disk, now, uuidCount,
                 saveFailures>>

get_project_call(project_id) ==
  Query("get_project", project_id) /\ UNCHANGED projects

get_focused_project_call ==
  Query("get_focused_project", 0) /\ UNCHANGED projects

get_active_projects_call ==
  Query("get_active_projects", 0) /\ UNCHANGED projects

get_all_watch_dirs_call ==
  Query("get_all_watch_dirs", 0) /\ UNCHANGED projects

export_context_call(project_id) ==
  /\ Query("export_context", project_id)
  /\ projects' =
       IF Known(projects, project_id)
       THEN [projects EXCEPT
               ![project_id].decisions =
                  DecisionsAfterSorted(projects[project_id].decisions)]
       ELSE projects

get_project_summary_call ==
  Query("get_project_summary", 0) /\ UNCHANGED projects

\* ------------------------------------------------------- the specification
\* The record an earlier run left in the directory: create_project with the
\* arguments a, the first token and the clock at 0, saved.
StoredProject(a) ==
  ProjectConfig(1, a[1], abspath(a[2]),
                SeqMap(abspath, IF a[3] = None THEN <<a[2]>> ELSE a[3][1]),
                "ACTIVE", 0, 0, a[4], None, None, None, None)

\* Where a run starts: on an empty directory, with a filesystem that may
\* reject saves, or on a directory holding the file of a project created by
\* an earlier run, with a filesystem that accepts every save.
Environments ==
  {[directory |-> EmptyMap, reliable |-> FALSE]} \cup
  {[directory |-> save_project(EmptyMap, StoredProject(a), "ok"),
    reliable |-> TRUE] : a \in CreateInputs}

\* A store constructed on the directory of one of the environments.
Init ==
  \E env \in Environments : \E files \in GlobOrders(env.directory) :
    LET loaded == LoadFiles(files, env.directory, EmptyStore)
    IN /\ disk = env.directory
       /\ reliable = env.reliable
       /\ projects = loaded.projects
       /\ order = loaded.order
       /\ focused_project_id =
            FocusAfterLoad(loaded.projects, loaded.order, None)
       /\ now = 0
       /\ uuidCount = Cardinality(DOMAIN env.directory)
       /\ saveFailures = 0
       /\ calls = 0
       /\ last = Call("__init__", 0, 0, "", "None")

\* every step is one more call, up to the bound
Counted == calls < MaxCalls /\ calls' = calls + 1 /\ UNCHANGED reliable

\* one call on the store, or the construction of a fresh store on the same
\* directory
Next ==
  \/ Counted /\ Construct
  \/ Counted /\ \E a \in CreateInputs : create_project(a[1], a[2], a[3], a[4])
  \/ Counted /\ \E pid \in PidInputs : set_focus(pid)
  \/ Counted /\ \E pid \in PidInputs : pause_project(pid)
  \/ Counted /\ \E pid \in PidInputs : resume_project(pid)
  \/ Counted /\ \E pid \in PidInputs : archive_project(pid)
  \/ Counted /\ \E pid \in PidInputs, tags \in TagInputs :
                  add_decision(pid, "use sqlite", "simple", tags)
  \/ Counted /\ \E pid \in PidInputs :
                  add_objective(pid, "Ship v1", "", "medium")
  \/ Counted /\ \E pid \in PidInputs, oid \in OidInputs :
                  complete_objective(pid, oid)

Spec == Init /\ [][Next]_vars

\* ------------------------------------- the store with its queries called
\* argument tuples of create_project for the runs with queries: a project
\* watching its root, and one given the same directory twice, once relative
\* and once absolute
WatchCreateInputs ==
  { <<"Alpha", "alpha", None, "">>,
    <<"Beta", "b", Some(<<"b", "/cwd/b">>), "second">> }

\* A store constructed on an empty directory or on the directory an earlier
\* run left one project in, with a filesystem that accepts every save.
QueryInit ==
  \E env \in Environments : \E files \in GlobOrders(env.directory) :
    LET loaded == LoadFiles(files, env.directory, EmptyStore)
    IN /\ disk = env.directory
       /\ reliable = TRUE
       /\ projects = loaded.projects
       /\ order = loaded.order
       /\ focused_project_id =
            FocusAfterLoad(loaded.projects, loaded.order, None)
       /\ now = 0
       /\ uuidCount = Cardinality(DOMAIN env.directory)
       /\ saveFailures = 0
       /\ calls = 0
       /\ last = Call("__init__", 0, 0, "", "None")

\* one call of a mutating method or of a query
QueryNext ==
  \/ Counted /\ \E a \in WatchCreateInputs :
                  create_project(a[1], a[2], a[3], a[4])
  \/ Counted /\ \E pid \in PidInputs : set_focus(pid)
  \/ Counted /\ \E pid \in PidInputs : pause_project(pid)
  \/ Counted /\ \E pid \in PidInputs : resume_project(pid)
  \/ Counted /\ \E pid \in PidInputs : archive_project(pid)
  \/ Counted /\ \E pid \in PidInputs :
                  add_decision(pid, "use sqlite", "simple", None)
  \/ Counted /\ \E pid \in PidInputs :
                  add_objective(pid, "Ship v1", "", "medium")
  \/ Counted /\ \E pid \in PidInputs, oid \in OidInputs :
                  complete_objective(pid, oid)
  \/ Counted /\ \E pid \in PidInputs : get_project_call(pid)
  \/ Counted /\ get_focused_project_call
  \/ Counted /\ get_active_projects_call
  \/ Counted /\ get_all_watch_dirs_call
  \/ Counted /\ \E pid \in PidInputs : export_context_call(pid)
  \/ Counted /\ get_project_summary_call

QuerySpec == QueryInit /\ [][QueryNext]_vars

\* ------------------------------------------ a project with many decisions
\* The record an earlier run left in the directory: project 1 with two
\* decisions, made at the clock values t and u of that run (datetime.now()
\* is the wall clock: the second may carry the earlier stamp).
StoredWithDecisions(t, u) ==
  [StoredProject(<<"Alpha", "alpha", None, "">>) EXCEPT
     !.decisions = << Decision(2, "use sqlite", "simple", t, None),
                      Decision(3, "use sqlite", "simple", u, None) >>]

\* A store constructed on a directory holding that record, with a filesystem
\* that accepts every save.
ExportInit ==
  \E t, u \in 0 .. MaxClock :
    LET directory == save_project(EmptyMap, StoredWithDecisions(t, u), "ok")
        loaded == LoadFiles(<<1>>, directory, EmptyStore)
    IN /\ disk = directory
       /\ reliable = TRUE
       /\ projects = loaded.projects
       /\ order = loaded.order
       /\ focused_project_id =
            FocusAfterLoad(loaded.projects, loaded.order, None)
       /\ now = 0
       /\ uuidCount = 3
       /\ saveFailures = 0
       /\ calls = 0
       /\ last = Call("__init__", 0, 0, "", "None")

\* every step is one more call, up to as many calls as decisions
ExportCounted ==
  calls < MaxDecisions /\ calls' = calls + 1 /\ UNCHANGED reliable

\* a decision is added to the project, up to the bound, or the project is
\* exported
ExportNext ==
  \/ /\ ExportCounted
     /\ Len(projects[1].decisions) < MaxDecisions
     /\ add_decision(1, "use sqlite", "simple", None)
  \/ ExportCounted /\ export_context_call(1)

ExportSpec == ExportInit /\ [][ExportNext]_vars

\* ============================================================ the claims
Mutators ==
  {"set_focus", "update_status", "add_decision", "add_objective",
   "complete_objective"}

\* every record of the map has a file holding its serialization
WriteThrough ==
  \A pid \in DOMAIN projects :
    /\ pid \in DOMAIN disk
    /\ disk[pid] = JsonText(to_dict(projects[pid]))

\* C1: write-through.  In a run that started on an empty directory and in
\* which no save has failed, between calls every record of the in-memory map
\* has a file <project_id>.json whose content is the serialization of that
\* record.
C1_WriteThrough == saveFailures = 0 => WriteThrough

\* a project that was mutated after its creation (a completed objective),
\* with no failed save
C1_Witness ==
  /\ saveFailures = 0
  /\ \E pid \in DOMAIN projects :
       \E i \in DOMAIN projects[pid].objectives :
         projects[pid].objectives[i].status = "completed"

\* C2: focused_project_id is unset or the id of a record of the map.
C2_FocusNotDangling ==
  focused_project_id = None \/ focused_project_id[1] \in DOMAIN projects

\* the focus is on a project other than the first of a store of two
C2_Witness ==
  /\ Len(order) >= 2
  /\ focused_project_id # None
  /\ focused_project_id[1] # order[1]

\* C3: a set_focus(x) that succeeds leaves get_focused_project() returning
\* the record whose project_id is x; set_focus of an unknown id reports
\* failure and leaves focused_project_id as it was.
C3_FocusInvariant ==
  [][ last'.op = "set_focus" =>
        /\ last'.res = "True" =>
             /\ get_focused_project(projects', focused_project_id') # None
             /\ get_focused_project(projects', focused_project_id')[1]
                  .project_id = last'.pid
        /\ ~Known(projects, last'.pid) =>
             /\ last'.res = "False"
             /\ focused_project_id' = focused_project_id ]_vars

\* set_focus has just succeeded on the second project of the store
C3_Witness ==
  /\ last.op = "set_focus"
  /\ last.res = "True"
  /\ Len(order) >= 2
  /\ last.pid = order[2]

\* the step just taken was a successful complete_objective
CompletedStep == last'.op = "complete_objective" /\ last'.res = "True"

\* the index, before the step, of the objective the call matched
MatchedIndex == FirstMatch(projects[last'.pid].objectives, last'.oid)

\* after the step the matched objective is completed with a completed_at
NowCompleted ==
  LET obj == projects'[last'.pid].objectives[MatchedIndex]
  IN obj.status = "completed" /\ obj.completed_at # None

\* C4 as stated: after complete_objective(p, o) succeeds, o is completed
\* with a non-null completed_at, and a second successful call on the same id
\* leaves the objective's completed_at, the project's record and its file
\* unchanged.
C4_SecondCallChangesNothing ==
  [][ CompletedStep =>
        /\ NowCompleted
        /\ projects[last'.pid].objectives[MatchedIndex].status = "completed"
             => projects' = projects /\ disk' = disk ]_vars

\* the record `after` is `before` but for last_active and the completed_at
\* of objective i
SameButStamps(before, after, i) ==
  [after EXCEPT !.last_active = before.last_active,
                !.objectives[i].completed_at =
                   before.objectives[i].completed_at] = before

\* C4 (amended): after complete_objective(p, o) succeeds, o is completed
\* with a non-null completed_at.  A second call on the same id never reports
\* "no such objective"; when it succeeds the objective stays completed, its
\* completed_at and the project's last_active are stamped again with the
\* clock of that call (never earlier than before), nothing else of the
\* record changes, no other record or file changes, and the project's file
\* is rewritten to the record.
C4_SecondCallRestamps ==
  [][ /\ CompletedStep =>
           /\ NowCompleted
           /\ projects[last'.pid].objectives[MatchedIndex].status
                = "completed" =>
                LET p == last'.pid
                    i == MatchedIndex
                    old == projects[p].objectives[i]
                    new == projects'[p].objectives[i]
                IN /\ new.completed_at[1] >= old.completed_at[1]
                   /\ new.completed_at[1] >= now
                   /\ new.completed_at[1] <= now'
                   /\ projects'[p].last_active = now'
                   /\ SameButStamps(projects[p], projects'[p], i)
                   /\ \A q \in DOMAIN projects \ {p} :
                        projects'[q] = projects[q]
                   /\ disk' = Put(disk, p, JsonText(to_dict(projects'[p])))
                   /\ focused_project_id' = focused_project_id
      /\ ( /\ last'.op = "complete_objective"
           /\ Known(projects, last'.pid)
           /\ \E i \in DOMAIN projects[last'.pid].objectives :
                /\ projects[last'.pid].objectives[i].id = last'.oid
                /\ projects[last'.pid].objectives[i].status = "completed" )
           => last'.res \in {"True", "raised"} ]_vars

\* a second complete_objective on an objective that was already completed
\* has just succeeded, at a later clock value than the first
C4_Witness ==
  /\ last.op = "complete_objective"
  /\ last.res = "True"
  /\ last.status = "completed"
  /\ \E i \in DOMAIN projects[last.pid].objectives :
       /\ projects[last.pid].objectives[i].id = last.oid
       /\ projects[last.pid].objectives[i].completed_at
            # Some(projects[last.pid].objectives[i].created_at)

IsPrefix(s, t) == Len(s) <= Len(t) /\ SubSeq(t, 1, Len(s)) = s

\* C5: across the calls on a store, for every project the decisions only
\* grow at the end (existing entries keep their place and content), the
\* objectives grow only by one add_objective on that project at a time, and
\* a completed objective stays completed.
C5_Monotonic ==
  [][ last'.op # "__init__" =>
        \A p \in DOMAIN projects :
          /\ p \in DOMAIN projects'
          /\ IsPrefix(projects[p].decisions, projects'[p].decisions)
          /\ Len(projects'[p].objectives) >= Len(projects[p].objectives)
          /\ Len(projects'[p].objectives) > Len(projects[p].objectives) =>
               /\ last'.op = "add_objective"
               /\ last'.pid = p
               /\ Len(projects'[p].objectives)
                    = Len(projects[p].objectives) + 1
          /\ \A i \in DOMAIN projects[p].objectives :
               /\ projects'[p].objectives[i].id = projects[p].objectives[i].id
               /\ projects[p].objectives[i].status = "completed" =>
                    projects'[p].objectives[i].status = "completed" ]_vars

\* a project with a completed objective has just been through a further
\* successful call
C5_Witness ==
  /\ last.op \in {"update_status", "complete_objective", "set_focus"}
  /\ last.res = "True"
  /\ \/ last.op # "complete_objective"
     \/ last.status = "completed"
  /\ \E i \in DOMAIN projects[last.pid].objectives :
       projects[last.pid].objectives[i].status = "completed"

\* the step just taken was a call that named a project the map does not
\* hold, or a complete_objective naming an objective the project does not
\* hold
NotFoundStep ==
  /\ last'.op \in Mutators
  /\ \/ ~Known(projects, last'.pid)
     \/ /\ last'.op = "complete_objective"
        /\ \A i \in DOMAIN projects[last'.pid].objectives :
             projects[last'.pid].objectives[i].id # last'.oid

\* C6: set_focus, update_status, add_decision, add_objective and
\* complete_objective on an unknown project id, and complete_objective on an
\* unknown objective id, return False (None for the add_ calls) without
\* raising and leave the map, the focus and every file unchanged;
\* export_context on an unknown id returns the empty document.
C6_NotFoundChangesNothing ==
  [][ /\ NotFoundStep =>
           /\ last'.res =
                IF last'.op \in {"add_decision", "add_objective"}
                THEN "None" ELSE "False"
           /\ UNCHANGED <<projects, order, focused_project_id, disk>>
      /\ \A pid \in PidInputs' \ DOMAIN projects' :
           export_context(projects', pid) = EmptyDocument ]_vars

\* complete_objective has just been refused for an objective id that a
\* project holding other objectives does not have
C6_Witness ==
  /\ last.op = "complete_objective"
  /\ last.res = "False"
  /\ Known(projects, last.pid)
  /\ projects[last.pid].objectives # << >>

\* the step just taken was a call whose save the filesystem rejected
SaveFailedStep == saveFailures' > saveFailures

\* ... and the call was on a project the map already held
SaveFailedOnKnown == SaveFailedStep /\ last'.op \in Mutators

\* the step just taken was a mutating call whose save completed
SavedStep ==
  /\ last'.op \in Mutators \cup {"create_project"}
  /\ last'.res \notin {"False", "None", "raised"}

\* the in-memory state after the step carries the mutation of the call
CarriesMutation ==
  LET p == last'.pid
  IN /\ p \in DOMAIN projects'
     /\ CASE last'.op = "create_project" -> p \notin DOMAIN projects
          [] last'.op = "set_focus" ->
               /\ focused_project_id' = Some(p)
               /\ projects'[p].last_active = now'
          [] last'.op = "update_status" ->
               /\ projects'[p].status = last'.status
               /\ projects'[p].last_active = now'
          [] last'.op = "add_decision" ->
               Len(projects'[p].decisions) = Len(projects[p].decisions) + 1
          [] last'.op = "add_objective" ->
               Len(projects'[p].objectives) = Len(projects[p].objectives) + 1
          [] last'.op = "complete_objective" ->
               \E i \in DOMAIN projects'[p].objectives :
                 /\ projects'[p].objectives[i].id = last'.oid
                 /\ projects'[p].objectives[i].status = "completed"
                 /\ projects'[p].last_active = now'

\* C7 as stated: when the filesystem rejects the save of a mutating call on
\* p, the call is reported as failed, the in-memory record of p carries the
\* mutation, p's file still holds the previously saved content, and the next
\* mutating call on p whose save succeeds makes the file equal the record.
C7_FileKeepsPreviousContent ==
  [][ /\ SaveFailedOnKnown =>
           /\ last'.res = "raised"
           /\ CarriesMutation
           /\ disk' = disk
      /\ SavedStep =>
           /\ last'.pid \in DOMAIN disk'
           /\ disk'[last'.pid] = JsonText(to_dict(projects'[last'.pid])) ]_vars

\* C7 (amended): when the filesystem rejects the save of a mutating call on
\* p, the call is reported as failed (the exception of the save reaches the
\* caller), the in-memory record of p carries the mutation, no other file
\* changes, and p's file either still holds the previously saved content
\* (open was rejected) or is left truncated and unparseable (the write was
\* rejected after open had truncated it); the next mutating call on p whose
\* save succeeds makes the file equal the record.
C7_FileStaleOrTruncated ==
  [][ /\ SaveFailedStep =>
           /\ last'.res = "raised"
           /\ CarriesMutation
           /\ \/ disk' = disk
              \/ disk' = Put(disk, last'.pid, Truncated)
      /\ SavedStep =>
           /\ last'.pid \in DOMAIN disk'
           /\ disk'[last'.pid] = JsonText(to_dict(projects'[last'.pid])) ]_vars

\* a call on p has just failed in its save: the record is ahead of the
\* file, which still parses to the record saved before
C7_Witness ==
  /\ last.res = "raised"
  /\ last.op \in Mutators
  /\ last.pid \in DOMAIN disk
  /\ Parses(disk[last.pid])
  /\ Parsed(disk[last.pid]) # projects[last.pid]

\* C8: whenever create_project is called on a store whose map is empty, the
\* record it creates is the one focused_project_id refers to afterwards,
\* also when the save of that call fails.
C8_FirstRecordFocused ==
  [][ (last'.op = "create_project" /\ DOMAIN projects = {}) =>
        focused_project_id' = Some(last'.pid) ]_vars

\* the records of the files of a directory that parse
ValidFiles(d) == {f \in DOMAIN d : Parses(d[f])}
ValidRecords(d) == {Parsed(d[f]) : f \in ValidFiles(d)}

\* C9: construction on a directory mixing valid and malformed record files
\* completes, and the map then holds exactly the records of the valid files,
\* each under its project_id, whatever the order the files were visited in.
C9_PartialLoad ==
  last.op = "__init__" =>
    /\ last.res = "None"
    /\ {projects[pid] : pid \in DOMAIN projects} = ValidRecords(disk)
    /\ Cardinality(DOMAIN projects) = Cardinality(ValidFiles(disk))
    /\ \A pid \in DOMAIN projects : projects[pid].project_id = pid
    /\ Range(order) = DOMAIN projects

\* a store has just been constructed on a directory with a valid and a
\* malformed file
C9_Witness ==
  /\ last.op = "__init__"
  /\ calls > 0
  /\ ValidFiles(disk) # {}
  /\ DOMAIN disk \ ValidFiles(disk) # {}

\* C10: every record of the map equals from_dict(to_dict(record)), also
\* through its JSON file, and after a run with no failed save a fresh store
\* constructed on the directory holds the records of the map, whatever the
\* order the files are visited in.
C10_RoundTrip ==
  /\ \A pid \in DOMAIN projects :
       /\ ~FromDictRaises(to_dict(projects[pid]))
       /\ from_dict(to_dict(projects[pid])) = projects[pid]
       /\ Parses(JsonText(to_dict(projects[pid])))
       /\ Parsed(JsonText(to_dict(projects[pid]))) = projects[pid]
  /\ saveFailures = 0 =>
       \A files \in GlobOrders(disk) :
         LoadFiles(files, disk, EmptyStore).projects = projects

\* a record with a tagged decision and a completed objective, in a run with
\* no failed save
C10_Witness ==
  /\ saveFailures = 0
  /\ \E pid \in DOMAIN projects :
       /\ \E i \in DOMAIN projects[pid].decisions :
            projects[pid].decisions[i].tags # << >>
       /\ \E i \in DOMAIN projects[pid].objectives :
            projects[pid].objectives[i].completed_at # None

\* C11: a store constructed right after another one on the same directory,
\* with no call in between, holds the same map of records as the first,
\* whatever the order in which glob yields the files; and no construction
\* creates, removes or alters a record file.
C11_IdempotentLoad ==
  [][ last'.op = "__init__" =>
        /\ disk' = disk
        /\ last.op = "__init__" => projects' = projects ]_vars

\* a second store has just been constructed, right after the first (the
\* only call of the run so far), on a directory holding a record file
C11_Witness ==
  /\ last.op = "__init__"
  /\ calls = 1
  /\ DOMAIN disk # {}
  /\ DOMAIN projects = DOMAIN disk

\* C12: when the construction of a store finishes, focused_project_id is the
\* id of a loaded record with status ACTIVE if there is one, and is unset if
\* no loaded record is ACTIVE (no record at all, or only paused and archived
\* ones).
C12_FocusAfterInit ==
  last.op = "__init__" =>
    IF \E pid \in DOMAIN projects : projects[pid].status = "ACTIVE"
    THEN /\ focused_project_id # None
         /\ focused_project_id[1] \in DOMAIN projects
         /\ projects[focused_project_id[1]].status = "ACTIVE"
    ELSE focused_project_id = None

\* a store has just been constructed on a directory whose first record is
\* not ACTIVE and whose second is
C12_Witness ==
  /\ last.op = "__init__"
  /\ Len(order) = 2
  /\ \E pid \in DOMAIN projects : projects[pid].status # "ACTIVE"
  /\ focused_project_id # None
  /\ focused_project_id[1] # order[1]

\* the ids of the entities of a sequence are pairwise distinct
DistinctIds(entities) ==
  \A i, j \in DOMAIN entities : entities[i].id = entities[j].id => i = j

Stamps(project) ==
  {project.created_at}
  \cup {project.decisions[i].timestamp : i \in DOMAIN project.decisions}
  \cup {project.objectives[i].created_at : i \in DOMAIN project.objectives}
  \cup UNION {Range(project.objectives[i].completed_at) :
                i \in DOMAIN project.objectives}

\* C18: with a clock that never goes back, every set_focus, update_status,
\* add_decision, add_objective and complete_objective that finds what it is
\* addressed to sets the last_active of its project to the clock value of the
\* call; across the calls on a store the last_active of a record never
\* decreases; and the last_active of a record is never earlier than any stamp
\* of the record.
C18_LastActive ==
  [][ /\ (last'.op \in Mutators /\ last'.res \notin {"False", "None"}) =>
           /\ projects'[last'.pid].last_active = now'
           /\ now' >= now
      /\ last'.op # "__init__" =>
           \A p \in DOMAIN projects :
             projects'[p].last_active >= projects[p].last_active
      /\ \A p \in DOMAIN projects' :
           \A t \in Stamps(projects'[p]) : projects'[p].last_active >= t ]_vars

\* set_focus has just stamped, at a later clock value, a project created at
\* clock 0
C18_Witness ==
  /\ last.op = "set_focus"
  /\ last.res = "True"
  /\ projects[last.pid].created_at = 0
  /\ projects[last.pid].last_active = 1

\* C19 as stated: focused_project_id changes only through a set_focus that
\* succeeds or through a create_project on a store whose map was empty.
C19_FocusChangesOnlyOnSuccess ==
  [][ (last'.op # "__init__" /\ focused_project_id' # focused_project_id) =>
        \/ last'.op = "set_focus" /\ last'.res = "True"
        \/ last'.op = "create_project" /\ DOMAIN projects = {} ]_vars

\* C19 (amended): across the calls on a store focused_project_id changes only
\* through a set_focus on a project of the map (it is moved to that project
\* before the save, so also when the save then fails) or through a
\* create_project on a store whose map was empty; update_status, add_decision,
\* add_objective, complete_objective and create_project on a non-empty store
\* leave it unchanged, so a focused project that is paused or archived is
\* still the one get_focused_project returns, and an unfocused store stays
\* unfocused through further creations.
C19_FocusFrame ==
  [][ /\ (last'.op # "__init__" /\ focused_project_id' # focused_project_id) =>
           \/ /\ last'.op = "set_focus"
              /\ Known(projects, last'.pid)
              /\ focused_project_id' = Some(last'.pid)
           \/ /\ last'.op = "create_project"
              /\ DOMAIN projects = {}
              /\ focused_project_id' = Some(last'.pid)
      /\ ( /\ last'.op = "update_status"
           /\ focused_project_id = Some(last'.pid)
           /\ Known(projects, last'.pid) ) =>
           /\ get_focused_project(projects', focused_project_id')
                = Some(projects'[last'.pid])
           /\ projects'[last'.pid].status = last'.status
      /\ ( /\ last'.op = "create_project"
           /\ DOMAIN projects # {}
           /\ focused_project_id = None ) => focused_project_id' = None ]_vars

\* the focused project has just been archived and is still the one
\* get_focused_project returns
C19_Witness ==
  /\ last.op = "update_status"
  /\ last.status = "ARCHIVED"
  /\ last.res = "True"
  /\ focused_project_id = Some(last.pid)
  /\ get_focused_project(projects, focused_project_id) # None
  /\ get_focused_project(projects, focused_project_id)[1].status = "ARCHIVED"

\* C20: a create_project, set_focus, update_status, add_decision,
\* add_objective or complete_objective addressed to project p leaves the
\* record and the file of every other project as they were; no call removes a
\* record from the map; no call and no construction removes a file; and
\* archiving a project changes nothing of its record but the status and
\* last_active.
C20_Isolation ==
  [][ /\ last'.op \in Mutators \cup {"create_project"} =>
           /\ \A q \in DOMAIN projects \ {last'.pid} :
                projects'[q] = projects[q]
           /\ \A q \in DOMAIN disk \ {last'.pid} :
                q \in DOMAIN disk' /\ disk'[q] = disk[q]
      /\ last'.op # "__init__" => DOMAIN projects \subseteq DOMAIN projects'
      /\ DOMAIN disk \subseteq DOMAIN disk'
      /\ ( /\ last'.op = "update_status"
           /\ last'.status = "ARCHIVED"
           /\ Known(projects, last'.pid) ) =>
           /\ projects'[last'.pid].status = "ARCHIVED"
           /\ [projects'[last'.pid] EXCEPT
                 !.status = projects[last'.pid].status,
                 !.last_active = projects[last'.pid].last_active]
                = projects[last'.pid] ]_vars

\* a project has just been archived in a store holding another project,
\* which is active and has its file
C20_Witness ==
  /\ last.op = "update_status"
  /\ last.status = "ARCHIVED"
  /\ last.res = "True"
  /\ \E q \in DOMAIN projects \ {last.pid} :
       /\ q \in DOMAIN disk
       /\ projects[q].status = "ACTIVE"

Queries ==
  {"get_project", "get_focused_project", "get_active_projects",
   "get_all_watch_dirs", "export_context", "get_project_summary"}

\* C14: a call of get_project, get_focused_project, get_active_projects,
\* get_all_watch_dirs, export_context or get_project_summary, in any state
\* the store can be in, leaves the map (every record with its last_active
\* and the order of its decisions), the key order, focused_project_id and
\* every file as they were.
C14_QueriesReadOnly ==
  [][ last'.op \in Queries =>
        UNCHANGED <<projects, order, focused_project_id, disk>> ]_vars

\* export_context has just been called on a project whose decisions are not
\* in the order it reports them in
C14_Witness ==
  /\ last.op = "export_context"
  /\ Known(projects, last.pid)
  /\ Len(projects[last.pid].decisions) >= 2
  /\ SortedByTimestampDesc(projects[last.pid].decisions)
       # projects[last.pid].decisions

\* the number of objectives of a project that are not completed
PendingCount(project) ==
  Len(project.objectives)
    - Cardinality({i \in DOMAIN project.objectives :
                     project.objectives[i].status = "completed"})

\* C15: in every state get_project_summary agrees with the store:
\* total_projects is the number of records and the sum of active_projects,
\* paused_projects and archived_projects; focused_project is
\* focused_project_id; projects has exactly one row per record; each row has
\* the name, status value and last_active of its record, objectives_pending
\* is the number of its objectives that are not completed and
\* total_decisions the number of its decisions.  After create_project,
\* add_objective and complete_objective on a fresh store it reports
\* total_projects = 1, active_projects = 1 and objectives_pending = 0.
C15_SummaryAgrees ==
  LET summary == get_project_summary(projects, order, focused_project_id)
      rows == summary.projects
  IN /\ summary.total_projects = Cardinality(DOMAIN projects)
     /\ summary.total_projects =
          summary.active_projects + summary.paused_projects
            + summary.archived_projects
     /\ summary.focused_project = focused_project_id
     /\ Len(rows) = Cardinality(DOMAIN projects)
     /\ {rows[i].id : i \in DOMAIN rows} = DOMAIN projects
     /\ \A i \in DOMAIN rows :
          LET project == projects[rows[i].id]
          IN /\ rows[i].name = project.name
             /\ rows[i].status = StatusValue(project.status)
             /\ rows[i].last_active = project.last_active
             /\ rows[i].objectives_pending = PendingCount(project)
             /\ rows[i].total_decisions = Len(project.decisions)
     /\ ( /\ ~reliable
          /\ calls = 3
          /\ uuidCount = 2
          /\ last.op = "complete_objective"
          /\ last.res \in {"True", "raised"}
          /\ last.status = "pending" ) =>
          /\ summary.total_projects = 1
          /\ summary.active_projects = 1
          /\ rows[1].objectives_pending = 0

\* create_project, add_objective and complete_objective have been called, in
\* that order, on a store constructed on an empty directory
C15_Witness ==
  /\ ~reliable
  /\ calls = 3
  /\ uuidCount = 2
  /\ last.op = "complete_objective"
  /\ last.res = "True"
  /\ last.status = "pending"
  /\ Len(projects[last.pid].objectives) = 1
  /\ projects[last.pid].objectives[1].status = "completed"

\* the directories watched by the active projects
ActiveWatchDirs ==
  UNION {Range(projects[p].watch_dirs) :
           p \in {q \in DOMAIN projects : projects[q].status = "ACTIVE"}}

\* the step just taken resumed a project that was not active
ResumedStep ==
  /\ last'.op = "update_status"
  /\ last'.status = "ACTIVE"
  /\ Known(projects, last'.pid)
  /\ projects[last'.pid].status # "ACTIVE"

\* C16: after any sequence of create, pause, resume and archive calls every
\* list get_all_watch_dirs may return holds no path twice and holds a path
\* exactly when the path is in watch_dirs of a project whose status is
\* ACTIVE; the directories of a project that was paused or archived are in
\* the list again once the project is resumed.
C16_WatchDirs ==
  /\ [](\A l \in get_all_watch_dirs(projects, order) :
          /\ \A i, j \in DOMAIN l : l[i] = l[j] => i = j
          /\ Range(l) = ActiveWatchDirs)
  /\ [][ ResumedStep =>
           \A l \in get_all_watch_dirs(projects', order') :
             Range(projects'[last'.pid].watch_dirs) \subseteq Range(l) ]_vars

\* a project given the same directory twice is active, and another project,
\* paused or archived, watches a directory that no active project watches
C16_Witness ==
  /\ \E p \in DOMAIN projects :
       /\ projects[p].status = "ACTIVE"
       /\ Len(projects[p].watch_dirs)
            > Cardinality(Range(projects[p].watch_dirs))
  /\ \E q \in DOMAIN projects :
       /\ projects[q].status # "ACTIVE"
       /\ Range(projects[q].watch_dirs) \cap ActiveWatchDirs = {}

\* how many entries of a sequence carry the timestamp v
CountAt(entries, v) ==
  Cardinality({i \in DOMAIN entries : entries[i].timestamp = v})

\* C13: for a project with n decisions export_context returns min(n, 10)
\* entries in recent_decisions, each the row of a decision of the project
\* and no decision more often than it is there, ordered by timestamp
\* descending, every one with a timestamp greater than or equal to that of
\* every decision left out; with 15 decisions it returns exactly 10; and
\* statistics.total_decisions is n.
C13_RecentDecisions ==
  \A p \in DOMAIN projects :
    LET decisions == projects[p].decisions
        n == Len(decisions)
        document == export_context(projects, p)
        rows == document.recent_decisions
    IN /\ Len(rows) = IF n <= 10 THEN n ELSE 10
       /\ n = 15 => Len(rows) = 10
       /\ \A i, j \in DOMAIN rows :
            i < j => rows[i].timestamp >= rows[j].timestamp
       /\ \A i \in DOMAIN rows :
            \E k \in DOMAIN decisions : rows[i] = DecisionRow(decisions[k])
       /\ \A k \in DOMAIN decisions :
            LET v == decisions[k].timestamp
            IN /\ CountAt(rows, v) <= CountAt(decisions, v)
               /\ CountAt(rows, v) < CountAt(decisions, v) =>
                    \A i \in DOMAIN rows : rows[i].timestamp >= v
       /\ document.statistics.total_decisions = n

\* a project with 15 decisions has just been exported; they are stored
\* neither oldest first nor newest first, and more than 10 of them, but not
\* all, carry the latest timestamp
C13_Witness ==
  /\ last.op = "export_context"
  /\ Len(projects[1].decisions) = 15
  /\ projects[1].decisions[1].timestamp > projects[1].decisions[2].timestamp
  /\ projects[1].decisions[2].timestamp < projects[1].decisions[15].timestamp
  /\ CountAt(projects[1].decisions, projects[1].decisions[15].timestamp) > 10

====
